---- MODULE Spec2Model ----
(***************************************************************************)
(* Model of the stream-consumption engine of frontend/src/App.jsx: the     *)
(* handleClone / processStream session machine, the frame splitting of the *)
(* SSE text, and the status-phrase step machine (updateProcessingStep).    *)
(* Text is modelled as sequences of one-character strings, so that split,  *)
(* startsWith, substring, trim and includes are computed as the code does. *)
(***************************************************************************)
EXTENDS Integers, Sequences, FiniteSets, TLC

(* ------------------------------------------------------------------ *)
(* Bounds of the model                                                 *)
(* ------------------------------------------------------------------ *)
MaxPieces == 3
MaxEvents == 4

(* ------------------------------------------------------------------ *)
(* String primitives of JavaScript used by processStream               *)
(* ------------------------------------------------------------------ *)
EVENT_MARK == <<"e","v","e","n","t",":"," ">>
DATA_MARK == <<"d","a","t","a",":"," ">>
FRAME_SEP == <<"\n","\n">>
LINE_SEP == <<"\n">>
WhiteSpace == {" ", "\n", "\t", "\r"}

\* String.prototype.startsWith
startsWith(s, p) == Len(s) >= Len(p) /\ SubSeq(s, 1, Len(p)) = p

\* String.prototype.substring(n): the text from 0-based index n on
substring(s, n) == SubSeq(s, n + 1, Len(s))

\* the first index i >= from at which sep occurs in s, 0 when there is none
indexFrom(s, sep, from) ==
  LET I == {i \in from..(Len(s) - Len(sep) + 1) :
              sep = <<>> \/ (s[i] = sep[1] /\ SubSeq(s, i, i + Len(sep) - 1) = sep)}
  IN IF I = {} THEN 0 ELSE CHOOSE i \in I : \A j \in I : i <= j

\* 1-based index of the first occurrence of sep in s, 0 when there is none
indexOf(s, sep) == indexFrom(s, sep, 1)

\* the segments of s from index from on, cut at the occurrences of sep
RECURSIVE splitFrom(_, _, _)
splitFrom(s, sep, from) ==
  LET i == indexFrom(s, sep, from)
  IN IF i = 0 THEN <<SubSeq(s, from, Len(s))>>
     ELSE <<SubSeq(s, from, i - 1)>> \o splitFrom(s, sep, i + Len(sep))

\* String.prototype.split(sep): left-to-right, non-overlapping, never empty
split(s, sep) == splitFrom(s, sep, 1)

\* !eventData.trim(): the text holds white space only
trimIsEmpty(s) == \A i \in 1..Len(s) : s[i] \in WhiteSpace

\* String.prototype.includes
includes(s, p) == indexOf(s, p) # 0

(* ------------------------------------------------------------------ *)
(* Frame extraction: the body of the read loop up to the dispatch      *)
(* ------------------------------------------------------------------ *)
\* the loop over eventLines: the last 'event: ' line and the last 'data: '
\* line of the segment win
RECURSIVE scanLines(_, _, _)
scanLines(eventLines, eventType, eventContent) ==
  IF eventLines = <<>> THEN [eventType |-> eventType, eventContent |-> eventContent]
  ELSE LET line == Head(eventLines)
       IN IF startsWith(line, EVENT_MARK)
            THEN scanLines(Tail(eventLines), substring(line, 7), eventContent)
          ELSE IF startsWith(line, DATA_MARK)
            THEN scanLines(Tail(eventLines), eventType, substring(line, 6))
          ELSE scanLines(Tail(eventLines), eventType, eventContent)

parseEvent(eventData) == scanLines(split(eventData, LINE_SEP), <<>>, <<>>)

\* the frames of the segments that reach the dispatch, in order
RECURSIVE framesOf(_)
framesOf(events) ==
  IF events = <<>> THEN <<>>
  ELSE LET eventData == Head(events)
           f == parseEvent(eventData)
       IN IF trimIsEmpty(eventData) THEN framesOf(Tail(events))
          ELSE IF f.eventType = <<>> \/ f.eventContent = <<>> THEN framesOf(Tail(events))
          ELSE <<f>> \o framesOf(Tail(events))

\* buffer = events.pop() || ''
RemainderDropped(events) == <<>>
Remainder(events) == events[Len(events)]

\* events after the pop
CompleteWithLast(events) == events
Complete(events) == SubSeq(events, 1, Len(events) - 1)

\* buffer += chunk; split; pop; the frames dispatched and the new buffer
appendChunk(buffer, chunk) ==
  LET events == split(buffer \o chunk, FRAME_SEP)
  IN [frames |-> framesOf(Complete(events)), buffer |-> Remainder(events)]

(* ------------------------------------------------------------------ *)
(* JavaScript values: strings, undefined, null                         *)
(* ------------------------------------------------------------------ *)
Undefined == [t |-> "undefined", s |-> <<>>]
Null == [t |-> "null", s |-> <<>>]
Str(s) == [t |-> "string", s |-> s]

\* truthiness: undefined, null and '' are falsy
Truthy(v) == v.t \notin {"undefined", "null"} /\ (v.t = "string" => v.s # <<>>)

\* a || b
or(a, b) == IF Truthy(a) THEN a ELSE b

(* ------------------------------------------------------------------ *)
(* The step machine: processingSteps, updateStep, updateProcessingStep *)
(* ------------------------------------------------------------------ *)
StepIds == <<"clone", "extract", "schema", "priority", "generate", "postman", "construct">>

StepLabels ==
  <<"Cloning repository", "Extracting API endpoints", "Generating database schema",
    "Prioritizing endpoints", "Generating backend code (AI)",
    "Creating Postman collection", "Constructing Final codebase">>

\* useState([...]) of processingSteps
InitialSteps ==
  [i \in 1..Len(StepIds) |->
     [id |-> StepIds[i], label |-> StepLabels[i], completed |-> FALSE, active |-> FALSE]]

\* steps.findIndex(step => step.id === id): 0 stands for -1
findIndexNext(steps, id) ==
  LET I == {i \in 1..Len(steps) : steps[i].id = id}
  IN IF I = {} THEN 0 ELSE ((CHOOSE i \in I : \A j \in I : i <= j) % Len(steps)) + 1

findIndex(steps, id) ==
  LET I == {i \in 1..Len(steps) : steps[i].id = id}
  IN IF I = {} THEN 0 ELSE CHOOSE i \in I : \A j \in I : i <= j

updateStepForgetsActive(steps, id, state) ==
  LET index == findIndex(steps, id)
  IN IF index = 0 THEN steps
     ELSE IF state = "active"
       THEN [steps EXCEPT ![index].completed = FALSE]
     ELSE IF state = "completed"
       THEN [steps EXCEPT ![index].active = FALSE, ![index].completed = TRUE]
     ELSE steps

updateStepKeepsCompleted(steps, id, state) ==
  LET index == findIndex(steps, id)
  IN IF index = 0 THEN steps
     ELSE IF state = "active"
       THEN [steps EXCEPT ![index].active = TRUE]
     ELSE IF state = "completed"
       THEN [steps EXCEPT ![index].active = FALSE, ![index].completed = TRUE]
     ELSE steps

updateStepActiveClearsOthers(steps, id, state) ==
  LET index == findIndex(steps, id)
  IN IF index = 0 THEN steps
     ELSE IF state = "active"
       THEN [i \in 1..Len(steps) |->
               IF i = index THEN [steps[i] EXCEPT !.active = TRUE, !.completed = FALSE]
               ELSE [steps[i] EXCEPT !.completed = FALSE]]
     ELSE IF state = "completed"
       THEN [steps EXCEPT ![index].active = FALSE, ![index].completed = TRUE]
     ELSE steps

updateStep(steps, id, state) ==
  LET index == findIndex(steps, id)
  IN IF index = 0 THEN steps
     ELSE IF state = "active"
       THEN [steps EXCEPT ![index].active = TRUE, ![index].completed = FALSE]
     ELSE IF state = "completed"
       THEN [steps EXCEPT ![index].active = FALSE, ![index].completed = TRUE]
     ELSE steps

\* 'Starting code generation'
P_STARTING == <<"S","t","a","r","t","i","n","g"," ","c","o","d","e"," ","g","e","n","e","r","a","t","i","o","n">>
\* 'Cloning repository'
P_CLONING == <<"C","l","o","n","i","n","g"," ","r","e","p","o","s","i","t","o","r","y">>
\* 'cloned successfully'
P_CLONED == <<"c","l","o","n","e","d"," ","s","u","c","c","e","s","s","f","u","l","l","y">>
\* 'Extracting API endpoints'
P_EXTRACTING == <<"E","x","t","r","a","c","t","i","n","g"," ","A","P","I"," ","e","n","d","p","o","i","n","t","s">>
\* 'endpoints extracted successfully'
P_EXTRACTED == <<"e","n","d","p","o","i","n","t","s"," ","e","x","t","r","a","c","t","e","d"," ","s","u","c","c","e","s","s","f","u","l","l","y">>
\* 'Generating database schema'
P_SCHEMA_GEN == <<"G","e","n","e","r","a","t","i","n","g"," ","d","a","t","a","b","a","s","e"," ","s","c","h","e","m","a">>
\* 'Database schema generated successfully'
P_SCHEMA_DONE == <<"D","a","t","a","b","a","s","e"," ","s","c","h","e","m","a"," ","g","e","n","e","r","a","t","e","d"," ","s","u","c","c","e","s","s","f","u","l","l","y">>
\* 'Setting API endpoint priorities'
P_PRIORITIES == <<"S","e","t","t","i","n","g"," ","A","P","I"," ","e","n","d","p","o","i","n","t"," ","p","r","i","o","r","i","t","i","e","s">>
\* 'endpoints prioritized successfully'
P_PRIORITIZED == <<"e","n","d","p","o","i","n","t","s"," ","p","r","i","o","r","i","t","i","z","e","d"," ","s","u","c","c","e","s","s","f","u","l","l","y">>
\* 'Generating backend code'
P_BACKEND_GEN == <<"G","e","n","e","r","a","t","i","n","g"," ","b","a","c","k","e","n","d"," ","c","o","d","e">>
\* 'Backend code generated successfully'
P_BACKEND_DONE == <<"B","a","c","k","e","n","d"," ","c","o","d","e"," ","g","e","n","e","r","a","t","e","d"," ","s","u","c","c","e","s","s","f","u","l","l","y">>
\* 'Postman collection generated successfully'
P_POSTMAN_DONE == <<"P","o","s","t","m","a","n"," ","c","o","l","l","e","c","t","i","o","n"," ","g","e","n","e","r","a","t","e","d"," ","s","u","c","c","e","s","s","f","u","l","l","y">>
\* 'API codebase constructed and zipped successfully'
P_CONSTRUCTED == <<"A","P","I"," ","c","o","d","e","b","a","s","e"," ","c","o","n","s","t","r","u","c","t","e","d"," ","a","n","d"," ","z","i","p","p","e","d"," ","s","u","c","c","e","s","s","f","u","l","l","y">>

\* the branch for 'Database schema generated successfully': schema is
\* marked complete and priority is kept active
RuleSchemaDoneSymmetric ==
  [phrase |-> P_SCHEMA_DONE, calls |-> <<<<"schema", "completed">>, <<"priority", "completed">>>>]
RuleSchemaDone ==
  [phrase |-> P_SCHEMA_DONE, calls |-> <<<<"schema", "completed">>, <<"priority", "active">>>>]

\* the if / else-if chain of updateProcessingStep, in its order: the phrase
\* tested and the updateStep calls of the branch
Rules ==
  << [phrase |-> P_STARTING, calls |-> <<<<"clone", "active">>>>],
     [phrase |-> P_CLONING, calls |-> <<<<"clone", "active">>>>],
     [phrase |-> P_CLONED, calls |-> <<<<"clone", "completed">>, <<"extract", "active">>>>],
     [phrase |-> P_EXTRACTING, calls |-> <<<<"extract", "active">>>>],
     [phrase |-> P_EXTRACTED,
      calls |-> <<<<"extract", "completed">>, <<"schema", "active">>, <<"priority", "active">>>>],
     [phrase |-> P_SCHEMA_GEN, calls |-> <<<<"schema", "active">>, <<"priority", "active">>>>],
     RuleSchemaDone,
     [phrase |-> P_PRIORITIES, calls |-> <<<<"priority", "active">>>>],
     [phrase |-> P_PRIORITIZED, calls |-> <<<<"priority", "completed">>, <<"generate", "active">>>>],
     [phrase |-> P_BACKEND_GEN, calls |-> <<<<"generate", "active">>>>],
     [phrase |-> P_BACKEND_DONE, calls |-> <<<<"generate", "completed">>, <<"postman", "active">>>>],
     [phrase |-> P_POSTMAN_DONE, calls |-> <<<<"postman", "completed">>, <<"construct", "active">>>>],
     [phrase |-> P_CONSTRUCTED, calls |-> <<<<"construct", "completed">>>>] >>

\* the branch taken for a status text: the first whose phrase the text
\* includes, 0 when the chain falls through
matchedRuleLast(text) ==
  LET I == {i \in 1..Len(Rules) : includes(text, Rules[i].phrase)}
  IN IF I = {} THEN 0 ELSE CHOOSE i \in I : \A j \in I : i >= j
matchedRule(text) ==
  LET I == {i \in 1..Len(Rules) : includes(text, Rules[i].phrase)}
  IN IF I = {} THEN 0 ELSE CHOOSE i \in I : \A j \in I : i <= j

RECURSIVE applyCalls(_, _)
applyCalls(steps, calls) ==
  IF calls = <<>> THEN steps
  ELSE applyCalls(updateStep(steps, Head(calls)[1], Head(calls)[2]), Tail(calls))

\* updateProcessingStep(status) as the function of prevSteps it passes to
\* setProcessingSteps; status is a JavaScript value
updateProcessingStepResets(prevSteps, status) ==
  IF ~Truthy(status) THEN prevSteps
  ELSE LET r == matchedRule(status.s)
       IN IF r = 0 THEN InitialSteps ELSE applyCalls(prevSteps, Rules[r].calls)
updateProcessingStep(prevSteps, status) ==
  IF ~Truthy(status) THEN prevSteps
  ELSE LET r == matchedRule(status.s)
       IN IF r = 0 THEN prevSteps ELSE applyCalls(prevSteps, Rules[r].calls)

(* ------------------------------------------------------------------ *)
(* Payloads: JSON.parse on the payload texts the model's stream carries *)
(* ------------------------------------------------------------------ *)
\* 'status'
T_STATUS == <<"s","t","a","t","u","s">>
\* 'endpoints'
T_ENDPOINTS == <<"e","n","d","p","o","i","n","t","s">>
\* 'completed'
T_COMPLETED == <<"c","o","m","p","l","e","t","e","d">>
\* 'error'
T_ERROR == <<"e","r","r","o","r">>
\* 'message_stop'
T_MESSAGE_STOP == <<"m","e","s","s","a","g","e","_","s","t","o","p">>
\* 'ping'
T_PING == <<"p","i","n","g">>
\* 'GET'
GET == <<"G","E","T">>
\* '/api/users'
S_API_USERS == <<"/","a","p","i","/","u","s","e","r","s">>
\* '/items'
S_ITEMS == <<"/","i","t","e","m","s">>
\* '/x'
S_X == <<"/","x">>
\* 'List'
S_LIST == <<"L","i","s","t">>
\* 'POST'
S_POST == <<"P","O","S","T">>
\* 'Create'
S_CREATE == <<"C","r","e","a","t","e">>
\* 'demo'
S_DEMO == <<"d","e","m","o">>
\* '/tmp/demo.zip'
S_ZIP == <<"/","t","m","p","/","d","e","m","o",".","z","i","p">>
\* 'boom'
S_BOOM == <<"b","o","o","m">>
\* 'Repo '
S_REPO == <<"R","e","p","o"," ">>
\* 'API '
S_API == <<"A","P","I"," ">>
\* 'Working...'
S_WORKING == <<"W","o","r","k","i","n","g",".",".",".">>
\* 'cloning repository'
S_LOWER == <<"c","l","o","n","i","n","g"," ","r","e","p","o","s","i","t","o","r","y">>
\* ': '
S_COLON == <<":"," ">>
\* ', '
S_COMMA == <<","," ">>
\* ' tests'
S_TESTS == <<" ","t","e","s","t","s">>

\* the status texts of the model: one for every phrase of the chain, texts
\* that match nothing, the empty text, and texts that hold two phrases
StatusTexts ==
  << P_STARTING,
     P_CLONING,
     S_REPO \o P_CLONED,
     P_EXTRACTING,
     S_API \o P_EXTRACTED,
     P_SCHEMA_GEN,
     P_SCHEMA_DONE,
     P_PRIORITIES,
     S_API \o P_PRIORITIZED,
     P_BACKEND_GEN,
     P_BACKEND_DONE,
     P_POSTMAN_DONE,
     P_CONSTRUCTED,
     S_WORKING,
     <<>>,
     P_SCHEMA_GEN \o S_COLON \o P_SCHEMA_DONE,
     P_BACKEND_DONE \o S_COMMA \o P_BACKEND_GEN \o S_TESTS,
     S_LOWER >>

\* '{"status":"'
J_STATUS_OPEN == <<"{","\"","s","t","a","t","u","s","\"",":","\"">>
\* '"}'
J_CLOSE == <<"\"","}">>
\* '{}'
J_EMPTY == <<"{","}">>
\* 'null'
J_NULL == <<"n","u","l","l">>
\* '{"endpoints":[{"method":"GET","path":"/api/users"}]}'
J_ENDPOINTS_1 == <<"{","\"","e","n","d","p","o","i","n","t","s","\"",":","[","{","\"","m","e","t","h","o","d","\"",":","\"","G","E","T","\"",",","\"","p","a","t","h","\"",":","\"","/","a","p","i","/","u","s","e","r","s","\"","}","]","}">>
\* '{"endpoints":[{"endpointName":"/items","path":"/x","summary":"List"},{"method":"POST","path":"/api/users","description":"Create"}]}'
J_ENDPOINTS_2 == <<"{","\"","e","n","d","p","o","i","n","t","s","\"",":","[","{","\"","e","n","d","p","o","i","n","t","N","a","m","e","\"",":","\"","/","i","t","e","m","s","\"",",","\"","p","a","t","h","\"",":","\"","/","x","\"",",","\"","s","u","m","m","a","r","y","\"",":","\"","L","i","s","t","\"","}",",","{","\"","m","e","t","h","o","d","\"",":","\"","P","O","S","T","\"",",","\"","p","a","t","h","\"",":","\"","/","a","p","i","/","u","s","e","r","s","\"",",","\"","d","e","s","c","r","i","p","t","i","o","n","\"",":","\"","C","r","e","a","t","e","\"","}","]","}">>
\* '{"endpoints":"none"}'
J_ENDPOINTS_TEXT == <<"{","\"","e","n","d","p","o","i","n","t","s","\"",":","\"","n","o","n","e","\"","}">>
\* '{"result":{"repo_name":"demo","zip_path":"/tmp/demo.zip"}}'
J_RESULT == <<"{","\"","r","e","s","u","l","t","\"",":","{","\"","r","e","p","o","_","n","a","m","e","\"",":","\"","d","e","m","o","\"",",","\"","z","i","p","_","p","a","t","h","\"",":","\"","/","t","m","p","/","d","e","m","o",".","z","i","p","\"","}","}">>
\* '{"result":null}'
J_RESULT_NULL == <<"{","\"","r","e","s","u","l","t","\"",":","n","u","l","l","}">>
\* '{"error":"boom"}'
J_ERROR == <<"{","\"","e","r","r","o","r","\"",":","\"","b","o","o","m","\"","}">>
\* '{"error":""}'
J_ERROR_EMPTY == <<"{","\"","e","r","r","o","r","\"",":","\"","\"","}">>
\* '{"status":'
J_MALFORMED == <<"{","\"","s","t","a","t","u","s","\"",":">>

\* the JSON text of a status payload
statusJson(text) == J_STATUS_OPEN \o text \o J_CLOSE

NoEndpoints == [t |-> "undefined", a |-> <<>>]
NoResult == [t |-> "undefined", repo_name |-> Undefined, zip_path |-> Undefined]
NullResult == [t |-> "null", repo_name |-> Undefined, zip_path |-> Undefined]
\* the value of {}: every property read gives undefined
EmptyObject ==
  [t |-> "object", status |-> Undefined, endpoints |-> NoEndpoints,
   result |-> NoResult, error |-> Undefined]
\* the value of null: a property read throws a TypeError
NullData == [EmptyObject EXCEPT !.t = "null"]
EmptyEndpoint ==
  [method |-> Undefined, endpointName |-> Undefined, path |-> Undefined,
   description |-> Undefined, summary |-> Undefined]

EndpointsArray1 ==
  << [EmptyEndpoint EXCEPT !.method = Str(GET), !.path = Str(S_API_USERS)] >>
EndpointsArray2 ==
  << [EmptyEndpoint EXCEPT !.endpointName = Str(S_ITEMS), !.path = Str(S_X),
                           !.summary = Str(S_LIST)],
     [EmptyEndpoint EXCEPT !.method = Str(S_POST), !.path = Str(S_API_USERS),
                           !.description = Str(S_CREATE)] >>
DemoResult == [t |-> "object", repo_name |-> Str(S_DEMO), zip_path |-> Str(S_ZIP)]

\* the well-formed payload texts and the values JSON.parse gives for them
Docs ==
  [i \in 1..Len(StatusTexts) |->
     [json |-> statusJson(StatusTexts[i]),
      data |-> [EmptyObject EXCEPT !.status = Str(StatusTexts[i])]]]
  \o
  << [json |-> J_EMPTY, data |-> EmptyObject],
     [json |-> J_NULL, data |-> NullData],
     [json |-> J_ENDPOINTS_1,
      data |-> [EmptyObject EXCEPT !.endpoints = [t |-> "array", a |-> EndpointsArray1]]],
     [json |-> J_ENDPOINTS_2,
      data |-> [EmptyObject EXCEPT !.endpoints = [t |-> "array", a |-> EndpointsArray2]]],
     [json |-> J_ENDPOINTS_TEXT,
      data |-> [EmptyObject EXCEPT !.endpoints = [t |-> "string", a |-> <<>>]]],
     [json |-> J_RESULT, data |-> [EmptyObject EXCEPT !.result = DemoResult]],
     [json |-> J_RESULT_NULL, data |-> [EmptyObject EXCEPT !.result = NullResult]],
     [json |-> J_ERROR, data |-> [EmptyObject EXCEPT !.error = Str(S_BOOM)]],
     [json |-> J_ERROR_EMPTY, data |-> [EmptyObject EXCEPT !.error = Str(<<>>)]] >>

\* JSON.parse(eventContent): the value, or ok = FALSE for the SyntaxError
\* thrown on any text that is not one of the well-formed payloads
JSONparse(eventContent) ==
  LET I == {i \in 1..Len(Docs) : Docs[i].json = eventContent}
  IN IF I = {} THEN [ok |-> FALSE, data |-> NullData]
     ELSE [ok |-> TRUE, data |-> Docs[CHOOSE i \in I : TRUE].data]

(* ------------------------------------------------------------------ *)
(* The dispatch of one frame: the try / switch / catch of processStream *)
(* ------------------------------------------------------------------ *)
\* 'An unknown error occurred during code generation'
MSG_UNKNOWN_ERROR == <<"A","n"," ","u","n","k","n","o","w","n"," ","e","r","r","o","r"," ","o","c","c","u","r","r","e","d"," ","d","u","r","i","n","g"," ","c","o","d","e"," ","g","e","n","e","r","a","t","i","o","n">>
\* 'Error parsing event data: '
MSG_PARSE_PREFIX == <<"E","r","r","o","r"," ","p","a","r","s","i","n","g"," ","e","v","e","n","t"," ","d","a","t","a",":"," ">>
\* 'Stream processing error: '
MSG_STREAM_PREFIX == <<"S","t","r","e","a","m"," ","p","r","o","c","e","s","s","i","n","g"," ","e","r","r","o","r",":"," ">>
\* 'Failed to start code generation: '
MSG_START_PREFIX == <<"F","a","i","l","e","d"," ","t","o"," ","s","t","a","r","t"," ","c","o","d","e"," ","g","e","n","e","r","a","t","i","o","n",":"," ">>
\* 'Failed to start code generation'
MSG_START_FAILED == <<"F","a","i","l","e","d"," ","t","o"," ","s","t","a","r","t"," ","c","o","d","e"," ","g","e","n","e","r","a","t","i","o","n">>
\* error.message of the exceptions of the platform (their wording is the
\* engine's): JSON.parse's SyntaxError, the TypeError of a property read on
\* null, a rejected fetch, a rejected read
\* 'Unexpected end of JSON input'
MSG_SYNTAX == <<"U","n","e","x","p","e","c","t","e","d"," ","e","n","d"," ","o","f"," ","J","S","O","N"," ","i","n","p","u","t">>
\* 'Cannot read properties of null'
MSG_TYPE == <<"C","a","n","n","o","t"," ","r","e","a","d"," ","p","r","o","p","e","r","t","i","e","s"," ","o","f"," ","n","u","l","l">>
\* 'Failed to fetch'
MSG_NETWORK == <<"F","a","i","l","e","d"," ","t","o"," ","f","e","t","c","h">>
\* 'network error'
MSG_READ == <<"n","e","t","w","o","r","k"," ","e","r","r","o","r">>

\* the object built for one element of data.endpoints
formatEndpoint(endpoint) ==
  [method |-> or(endpoint.method, Str(GET)),
   path |-> or(or(endpoint.endpointName, endpoint.path), Str(<<>>)),
   description |-> or(or(endpoint.description, endpoint.summary), Str(<<>>))]

formattedEndpoints(a) == [i \in 1..Len(a) |-> formatEndpoint(a[i])]

\* catch (error) of the inner try: setError, nothing else
catchParseFatal(st, message) ==
  [st EXCEPT !.error = Str(MSG_PARSE_PREFIX \o message), !.loading = FALSE]
catchParse(st, message) == [st EXCEPT !.error = Str(MSG_PARSE_PREFIX \o message)]

\* case 'status'
caseStatus(st, data) ==
  [st EXCEPT !.processingSteps = updateProcessingStep(@, data.status)]

\* case 'endpoints'
caseEndpointsMerging(st, data) ==
  IF data.endpoints.t = "array"
    THEN [st EXCEPT !.endpoints = @ \o formattedEndpoints(data.endpoints.a)]
    ELSE st
caseEndpoints(st, data) ==
  IF data.endpoints.t = "array"
    THEN [st EXCEPT !.endpoints = formattedEndpoints(data.endpoints.a)]
    ELSE st

\* case 'completed'
caseCompleted(st, data) ==
  [st EXCEPT !.projectData = IF Truthy(data.result) THEN data.result ELSE @,
             !.loading = FALSE]

\* case 'error'
caseErrorNoFallback(st, data) ==
  [st EXCEPT !.error = data.error, !.loading = FALSE]
caseError(st, data) ==
  [st EXCEPT !.error = or(data.error, Str(MSG_UNKNOWN_ERROR)), !.loading = FALSE]

\* catch (error) of processStream: setError and setLoading(false)
catchStreamKeepsLoading(st, message) ==
  [st EXCEPT !.error = Str(MSG_STREAM_PREFIX \o message)]
catchStream(st, message) ==
  [st EXCEPT !.error = Str(MSG_STREAM_PREFIX \o message), !.loading = FALSE]

\* catch (error) of handleClone: setError and setLoading(false)
catchStart(st, message) ==
  [st EXCEPT !.error = Str(MSG_START_PREFIX \o message), !.loading = FALSE]

\* case 'message_stop'
caseMessageStopAsError(st) ==
  [st EXCEPT !.loading = FALSE, !.error = Str(MSG_UNKNOWN_ERROR)]
caseMessageStop(st) == [st EXCEPT !.loading = FALSE]

\* the cases of the switch that read a property of data
ReadsData == {T_STATUS, T_ENDPOINTS, T_COMPLETED, T_ERROR}

\* one frame through try { JSON.parse; switch } catch; st is the record of
\* the five state cells the setters write
dispatch(st, f) ==
  LET p == JSONparse(f.eventContent)
  IN IF ~p.ok THEN catchParse(st, MSG_SYNTAX)
     ELSE IF f.eventType \in ReadsData /\ p.data.t = "null" THEN catchParse(st, MSG_TYPE)
     ELSE IF f.eventType = T_STATUS THEN caseStatus(st, p.data)
     ELSE IF f.eventType = T_ENDPOINTS THEN caseEndpoints(st, p.data)
     ELSE IF f.eventType = T_COMPLETED THEN caseCompleted(st, p.data)
     ELSE IF f.eventType = T_ERROR THEN caseError(st, p.data)
     ELSE IF f.eventType = T_MESSAGE_STOP THEN caseMessageStop(st)
     ELSE st

\* for (const eventData of events): the frames of one chunk, in order
RECURSIVE dispatchAll(_, _)
dispatchAll(st, frames) ==
  IF frames = <<>> THEN st ELSE dispatchAll(dispatch(st, Head(frames)), Tail(frames))

(* ------------------------------------------------------------------ *)
(* State                                                               *)
(* ------------------------------------------------------------------ *)
VARIABLES
  repoUrl,          \* useState(''): the text of the input
  loading,          \* useState(false): the session-active flag
  endpoints,        \* useState([])
  projectData,      \* useState(null): the result
  processingSteps,  \* useState([...seven steps...])
  error,            \* useState(null)
  eventSourceRef,   \* useRef(null): .current
  mounted,          \* the component is mounted (its cleanup has not run)
  streams,          \* one record per accepted handleClone: its fetch / reader
  transported,      \* number of transport transported so far: fetch outcomes, reads
  last,             \* the operation that ran last
  prevSteps,        \* processingSteps before the last status text was applied
  text, fed, cbuffer, dispatched   \* chunked feeding of one event text

vars ==
  <<repoUrl, loading, endpoints, projectData, processingSteps, error, eventSourceRef,
    mounted, streams, transported, last, prevSteps, text, fed, cbuffer, dispatched>>

appVars ==
  <<repoUrl, loading, endpoints, projectData, processingSteps, error, eventSourceRef,
    mounted, streams, transported, last>>

cvars == <<text, fed, cbuffer, dispatched>>

side == <<prevSteps, text, fed, cbuffer, dispatched>>

\* the five state cells the stream handlers write, as one record
cells ==
  [loading |-> loading, endpoints |-> endpoints, projectData |-> projectData,
   processingSteps |-> processingSteps, error |-> error]

RepoUrls == {"", "https://github.com/acme/shop"}

Op(op, sid, arg) == [op |-> op, sid |-> sid, arg |-> arg]

\* the state after App() has rendered for the first time
InitApp ==
  /\ repoUrl = ""
  /\ loading = FALSE
  /\ endpoints = <<>>
  /\ projectData = NullResult
  /\ processingSteps = InitialSteps
  /\ error = Null
  /\ eventSourceRef = Null
  /\ mounted = TRUE
  /\ streams = <<>>
  /\ transported = 0
  /\ last = Op("init", 0, 0)
  /\ prevSteps = InitialSteps

InitNoText ==
  /\ text = <<>>
  /\ fed = 0
  /\ cbuffer = <<>>
  /\ dispatched = <<>>

Init == InitApp /\ InitNoText

(* ------------------------------------------------------------------ *)
(* The chunks the transport of the model delivers                      *)
(* ------------------------------------------------------------------ *)
\* the text of one frame as the server writes it
frameText(type, json) == EVENT_MARK \o type \o LINE_SEP \o DATA_MARK \o json \o FRAME_SEP

\* 'Clo'
S_CUT_HEAD == <<"C","l","o">>
\* 'ning repository'
S_CUT_TAIL == <<"n","i","n","g"," ","r","e","p","o","s","i","t","o","r","y">>

ChunkLib ==
  << \* 1: status 'Cloning repository'
     frameText(T_STATUS, statusJson(P_CLONING)),
     \* 2: status 'Repo cloned successfully', then endpoints [GET /api/users]
     frameText(T_STATUS, statusJson(S_REPO \o P_CLONED)) \o frameText(T_ENDPOINTS, J_ENDPOINTS_1),
     \* 3: completed with the result {demo, /tmp/demo.zip}
     frameText(T_COMPLETED, J_RESULT),
     \* 4: endpoints, another array
     frameText(T_ENDPOINTS, J_ENDPOINTS_2),
     \* 5: error 'boom'
     frameText(T_ERROR, J_ERROR),
     \* 6: message_stop
     frameText(T_MESSAGE_STOP, J_EMPTY),
     \* 7: a status frame with a malformed payload, then a well-formed one
     frameText(T_STATUS, J_MALFORMED) \o frameText(T_STATUS, statusJson(P_EXTRACTING)),
     \* 8: a frame of a type the switch does not know
     frameText(T_PING, J_EMPTY),
     \* 9: the head of a status frame, cut inside its data line
     EVENT_MARK \o T_STATUS \o LINE_SEP \o DATA_MARK \o J_STATUS_OPEN \o S_CUT_HEAD,
     \* 10: the rest of that frame
     S_CUT_TAIL \o J_CLOSE \o FRAME_SEP,
     \* 11: status 'API codebase constructed and zipped successfully', then
     \* completed with the result
     frameText(T_STATUS, statusJson(P_CONSTRUCTED)) \o frameText(T_COMPLETED, J_RESULT),
     \* 12: error with an empty message, then error with no message
     frameText(T_ERROR, J_ERROR_EMPTY) \o frameText(T_ERROR, J_EMPTY),
     \* 13: three status frames: 'Working...', no status field, empty status
     frameText(T_STATUS, statusJson(S_WORKING)) \o frameText(T_STATUS, J_EMPTY)
       \o frameText(T_STATUS, statusJson(<<>>)),
     \* 14: a frame of a type the switch does not know, with a malformed payload
     frameText(T_PING, J_MALFORMED) >>

(* ------------------------------------------------------------------ *)
(* Operations                                                          *)
(* ------------------------------------------------------------------ *)
\* onChange of the input (disabled while loading)
SetRepoUrl(u) ==
  /\ mounted
  /\ ~loading
  /\ u # repoUrl
  /\ repoUrl' = u
  /\ last' = Op("setRepoUrl", 0, 0)
  /\ UNCHANGED <<loading, endpoints, projectData, processingSteps, error, eventSourceRef,
                 mounted, streams, transported>>
  /\ UNCHANGED side

\* eventSourceRef.current.close() without the test of the ref: on null this
\* raises a TypeError
closeEventSourceUnguarded(ref) ==
  IF Truthy(ref) THEN [t |-> "closed", s |-> <<>>] ELSE [t |-> "TypeError", s |-> <<>>]

\* if (eventSourceRef.current) eventSourceRef.current.close()
closeEventSource(ref) == IF Truthy(ref) THEN [t |-> "closed", s |-> <<>>] ELSE ref

\* processingSteps.map(step => ({...step, completed: false, active: false}))
resetStepsKeepsCompleted(steps) ==
  [i \in 1..Len(steps) |-> [steps[i] EXCEPT !.active = FALSE]]
resetSteps(steps) ==
  [i \in 1..Len(steps) |-> [steps[i] EXCEPT !.completed = FALSE, !.active = FALSE]]

\* if (!repoUrl || loading) return
returnsEarlyOnEmptyUrlOnly(url, isLoading) == url = ""
returnsEarly(url, isLoading) == url = "" \/ isLoading

\* handleClone up to the await of fetch
HandleClone ==
  /\ mounted
  /\ IF returnsEarly(repoUrl, loading)
       THEN /\ last' = Op("handleClone:return", 0, 0)
            /\ last' # last
            /\ UNCHANGED <<repoUrl, loading, endpoints, projectData, processingSteps, error,
                           eventSourceRef, mounted, streams, transported>>
       ELSE /\ transported + Len(streams) < MaxEvents
            /\ error' = Null
            /\ loading' = TRUE
            /\ endpoints' = <<>>
            /\ projectData' = NullResult
            /\ processingSteps' = resetSteps(processingSteps)
            /\ eventSourceRef' = closeEventSource(eventSourceRef)
            /\ streams' = Append(streams, [phase |-> "fetch", buffer |-> <<>>, terminal |-> FALSE])
            /\ last' = Op("handleClone", Len(streams) + 1, 0)
            /\ UNCHANGED <<repoUrl, mounted, transported>>
  /\ UNCHANGED side

\* the fetch resolves with response.ok: getReader, buffer = '', processStream()
fetchResolves(sid) ==
  /\ sid \in 1..Len(streams)
  /\ streams[sid].phase = "fetch"
  /\ streams' = [streams EXCEPT ![sid].phase = "reading"]
  /\ transported' = transported + 1
  /\ last' = Op("fetchOk", sid, 0)
  /\ UNCHANGED <<repoUrl, loading, endpoints, projectData, processingSteps, error,
                 eventSourceRef, mounted>>
  /\ UNCHANGED side

\* the same, within the budget of transport events
FetchOk(sid) == transported < MaxEvents /\ fetchResolves(sid)

\* the fetch resolves with !response.ok (message = MSG_START_FAILED) or
\* rejects (message = MSG_NETWORK): the outer catch of handleClone
fetchRejects(sid, message) ==
  /\ sid \in 1..Len(streams)
  /\ streams[sid].phase = "fetch"
  /\ streams' = [streams EXCEPT ![sid].phase = "failed", ![sid].terminal = TRUE]
  /\ error' = catchStart(cells, message).error
  /\ loading' = catchStart(cells, message).loading
  /\ transported' = transported + 1
  /\ last' = Op("fetchFails", sid, 0)
  /\ UNCHANGED <<repoUrl, endpoints, projectData, processingSteps, eventSourceRef,
                 mounted>>
  /\ UNCHANGED side

\* the same, within the budget of transport events
FetchFails(sid, message) == transported < MaxEvents /\ fetchRejects(sid, message)

\* a dispatched frame that runs setLoading(false): completed, error, message_stop
isTerminalFrame(f) ==
  LET p == JSONparse(f.eventContent)
  IN /\ p.ok
     /\ f.eventType \in {T_COMPLETED, T_ERROR, T_MESSAGE_STOP}
     /\ ~(f.eventType \in ReadsData /\ p.data.t = "null")

\* one pass of the while loop: reader.read() yields a chunk
Deliver(sid, c) ==
  /\ sid \in 1..Len(streams)
  /\ streams[sid].phase = "reading"
  /\ transported < MaxEvents
  /\ \E r \in {appendChunk(streams[sid].buffer, ChunkLib[c])} :
       \E st \in {dispatchAll(cells, r.frames)} :
         /\ loading' = st.loading
         /\ endpoints' = st.endpoints
         /\ projectData' = st.projectData
         /\ processingSteps' = st.processingSteps
         /\ error' = st.error
         /\ streams' = [streams EXCEPT
                          ![sid].buffer = r.buffer,
                          ![sid].terminal =
                             @ \/ \E i \in 1..Len(r.frames) : isTerminalFrame(r.frames[i])]
  /\ transported' = transported + 1
  /\ last' = Op("deliver", sid, c)
  /\ UNCHANGED <<repoUrl, eventSourceRef, mounted>>
  /\ UNCHANGED side

\* if (done) { setLoading(false); break }: the text in buffer is not looked at
onDoneFlushes(st, buffer) ==
  [dispatchAll(st, framesOf(<<buffer>>)) EXCEPT !.loading = FALSE]
onDoneKeepsLoading(st, buffer) == st
onDone(st, buffer) == [st EXCEPT !.loading = FALSE]

\* reader.read() yields done: setLoading(false); break
readDone(sid) ==
  /\ sid \in 1..Len(streams)
  /\ streams[sid].phase = "reading"
  /\ streams' = [streams EXCEPT ![sid].phase = "done", ![sid].terminal = TRUE]
  /\ \E st \in {onDone(cells, streams[sid].buffer)} :
       /\ loading' = st.loading
       /\ endpoints' = st.endpoints
       /\ projectData' = st.projectData
       /\ processingSteps' = st.processingSteps
       /\ error' = st.error
  /\ transported' = transported + 1
  /\ last' = Op("streamDone", sid, 0)
  /\ UNCHANGED <<repoUrl, eventSourceRef, mounted>>
  /\ UNCHANGED side

\* the same, within the budget of transport events
StreamDone(sid) == transported < MaxEvents /\ readDone(sid)

\* reader.read() rejects: the catch of processStream
readRejects(sid) ==
  /\ sid \in 1..Len(streams)
  /\ streams[sid].phase = "reading"
  /\ streams' = [streams EXCEPT ![sid].phase = "failed", ![sid].terminal = TRUE]
  /\ error' = catchStream(cells, MSG_READ).error
  /\ loading' = catchStream(cells, MSG_READ).loading
  /\ transported' = transported + 1
  /\ last' = Op("readFails", sid, 0)
  /\ UNCHANGED <<repoUrl, endpoints, projectData, processingSteps, eventSourceRef,
                 mounted>>
  /\ UNCHANGED side

\* the same, within the budget of transport events
ReadFails(sid) == transported < MaxEvents /\ readRejects(sid)

\* the cleanup returned by useEffect(() => ..., []): teardown of the
\* component; last.arg is 1 for the first run and 2 for a run after it
Cleanup ==
  /\ eventSourceRef' = closeEventSource(eventSourceRef)
  /\ mounted' = FALSE
  /\ last' = Op("cleanup", 0, IF mounted THEN 1 ELSE 2)
  /\ UNCHANGED <<repoUrl, loading, endpoints, projectData, processingSteps, error,
                 streams, transported>>
  /\ UNCHANGED side

Next ==
  \/ \E u \in RepoUrls : SetRepoUrl(u)
  \/ HandleClone
  \/ \E sid \in 1..Len(streams) : FetchOk(sid)
  \/ \E sid \in 1..Len(streams), m \in {MSG_START_FAILED, MSG_NETWORK} : FetchFails(sid, m)
  \/ \E sid \in 1..Len(streams), c \in 1..Len(ChunkLib) : Deliver(sid, c)
  \/ \E sid \in 1..Len(streams) : StreamDone(sid)
  \/ \E sid \in 1..Len(streams) : ReadFails(sid)
  \/ Cleanup

Spec == Init /\ [][Next]_vars

\* the same operations, with the outcome of a fetch and the end of a
\* stream not held back by the budget: only chunks and starts are bounded
NextLive ==
  \/ \E u \in RepoUrls : SetRepoUrl(u)
  \/ HandleClone
  \/ \E sid \in 1..Len(streams) : fetchResolves(sid)
  \/ \E sid \in 1..Len(streams), m \in {MSG_START_FAILED, MSG_NETWORK} : fetchRejects(sid, m)
  \/ \E sid \in 1..Len(streams), c \in 1..Len(ChunkLib) : Deliver(sid, c)
  \/ \E sid \in 1..Len(streams) : readDone(sid)
  \/ \E sid \in 1..Len(streams) : readRejects(sid)
  \/ Cleanup

\* every fetch that was issued resolves or rejects
FetchSettles(sid) ==
  fetchResolves(sid) \/ \E m \in {MSG_START_FAILED, MSG_NETWORK} : fetchRejects(sid, m)

\* every stream that is read ends or fails
StreamEnds(sid) == readDone(sid) \/ readRejects(sid)

SpecLive ==
  /\ Init
  /\ [][NextLive]_vars
  /\ \A sid \in 1..MaxEvents : WF_vars(FetchSettles(sid)) /\ WF_vars(StreamEnds(sid))

(* ------------------------------------------------------------------ *)
(* The step machine alone: status texts applied in any order           *)
(* ------------------------------------------------------------------ *)
\* the value of data.status: undefined for 0, else the i-th status text
statusValue(i) == IF i = 0 THEN Undefined ELSE Str(StatusTexts[i])

\* setProcessingSteps(prevSteps => ...) of updateProcessingStep(status)
ApplyStatus(i) ==
  /\ processingSteps' = updateProcessingStep(processingSteps, statusValue(i))
  /\ prevSteps' = processingSteps
  /\ last' = Op("status", 0, i)
  /\ UNCHANGED <<repoUrl, loading, endpoints, projectData, error, eventSourceRef,
                 mounted, streams, transported>>
  /\ UNCHANGED cvars

NextSteps == \E i \in 0..Len(StatusTexts) : ApplyStatus(i)

SpecSteps == Init /\ [][NextSteps]_vars

(* ------------------------------------------------------------------ *)
(* Chunked feeding of one event text                                   *)
(* ------------------------------------------------------------------ *)
\* 'event: a\ndata: 1\n\n'
FrameA == <<"e","v","e","n","t",":"," ","a","\n","d","a","t","a",":"," ","1","\n","\n">>
\* 'event: b\n'
PieceEvent == <<"e","v","e","n","t",":"," ","b","\n">>
\* 'data: 2\n'
PieceData == <<"d","a","t","a",":"," ","2","\n">>
\* ':k\n'
PieceComment == <<":","k","\n">>
\* ' \n\n'
PieceBlank == <<" ","\n","\n">>
Pieces == {FrameA, PieceEvent, PieceData, LINE_SEP, PieceComment, PieceBlank}

RECURSIVE Texts(_)
Texts(n) ==
  IF n = 0 THEN {<<>>}
  ELSE LET T == Texts(n - 1) IN T \cup {t \o p : t \in T, p \in Pieces}

InitChunks ==
  /\ InitApp
  /\ text \in Texts(MaxPieces)
  /\ fed = 0
  /\ cbuffer = <<>>
  /\ dispatched = <<>>

\* one reader.read() that yields the next k characters of the text
FeedChunk(k) ==
  /\ fed + k <= Len(text)
  /\ LET r == appendChunk(cbuffer, SubSeq(text, fed + 1, fed + k))
     IN /\ cbuffer' = r.buffer
        /\ dispatched' = dispatched \o r.frames
  /\ fed' = fed + k
  /\ UNCHANGED text
  /\ UNCHANGED <<appVars, prevSteps>>

NextChunks == \E k \in 1..Len(text) : FeedChunk(k)

SpecChunks == InitChunks /\ [][NextChunks]_vars

(* ------------------------------------------------------------------ *)
(* Properties                                                          *)
(* ------------------------------------------------------------------ *)
\* C1: however the text is cut into chunks, the frames dispatched once the
\* whole text has been fed, and the text left in the buffer, are those of
\* feeding the text as one chunk
ChunkBoundaryInvariance ==
  fed = Len(text) =>
    /\ dispatched = appendChunk(<<>>, text).frames
    /\ cbuffer = appendChunk(<<>>, text).buffer

\* a text of two frames has been fed in full and both frames were dispatched
ChunkBoundaryWitness ==
  /\ fed = Len(text)
  /\ text = FrameA \o FrameA
  /\ Len(dispatched) = 2
  /\ cbuffer = <<>>

(* helpers of the properties below *)
\* the frames dispatched by the Deliver step of stream sid and chunk c,
\* read in the state before the step
framesOfStep(sid, c) == appendChunk(streams[sid].buffer, ChunkLib[c]).frames

\* the frame's payload is text JSON.parse accepts
wellFormed(f) == JSONparse(f.eventContent).ok

\* the step of processingSteps with the given id
stepOf(steps, id) == steps[findIndex(steps, id)]

\* the text contains the phrase of rule k and of no rule before it
firstMatchIs(t, k) ==
  /\ includes(t, Rules[k].phrase)
  /\ \A j \in 1..(k - 1) : ~includes(t, Rules[j].phrase)

\* C2: once a later session has been started, a chunk read from the stream
\* of an earlier session changes none of the five state cells
SupersededStreamIsInert ==
  [][(last'.op = "deliver" /\ last'.sid < Len(streams)) => cells' = cells]_vars

\* C3: once a stream is terminal (a completed, error or message_stop frame
\* was dispatched on it), a later chunk of that stream changes neither the
\* step list nor the endpoint list
TerminalStreamKeepsStepsAndEndpoints ==
  [][(last'.op = "deliver" /\ streams[last'.sid].terminal)
       => (processingSteps' = processingSteps /\ endpoints' = endpoints)]_vars

\* C4: after the unmount cleanup has run, a chunk read from any stream
\* changes none of the five state cells
NoChangeAfterTeardown ==
  [][(~mounted /\ last'.op = "deliver") => cells' = cells]_vars

\* C5: applying a status text never takes a completed step to pending
StepMonotonicity ==
  \A i \in 1..Len(processingSteps) :
    prevSteps[i].completed => (processingSteps[i].completed \/ processingSteps[i].active)

\* a completed step was named again by a later status text and is now active
StepMonotonicityWitness ==
  /\ last.op = "status"
  /\ \E i \in 1..Len(processingSteps) :
       /\ prevSteps[i].completed
       /\ processingSteps[i].active
       /\ ~processingSteps[i].completed

\* C6 as stated: a text whose first phrase is 'endpoints extracted
\* successfully' leaves extract completed and schema and priority active; a
\* text that contains 'Database schema generated successfully' leaves schema
\* completed and priority active
ConcurrentStepRuleAnyText ==
  (last.op = "status" /\ last.arg # 0) =>
    LET t == StatusTexts[last.arg]
    IN /\ firstMatchIs(t, 5) =>
            /\ stepOf(processingSteps, "extract").completed
            /\ stepOf(processingSteps, "schema").active
            /\ stepOf(processingSteps, "priority").active
       /\ includes(t, P_SCHEMA_DONE) =>
            /\ stepOf(processingSteps, "schema").completed
            /\ stepOf(processingSteps, "priority").active
            /\ ~stepOf(processingSteps, "priority").completed

\* C6 amended: the same, for a text whose first matching phrase is
\* 'Database schema generated successfully'
ConcurrentStepRule ==
  (last.op = "status" /\ last.arg # 0) =>
    LET t == StatusTexts[last.arg]
    IN /\ firstMatchIs(t, 5) =>
            /\ stepOf(processingSteps, "extract").completed
            /\ ~stepOf(processingSteps, "extract").active
            /\ stepOf(processingSteps, "schema").active
            /\ ~stepOf(processingSteps, "schema").completed
            /\ stepOf(processingSteps, "priority").active
            /\ ~stepOf(processingSteps, "priority").completed
       /\ firstMatchIs(t, 7) =>
            /\ stepOf(processingSteps, "schema").completed
            /\ ~stepOf(processingSteps, "schema").active
            /\ stepOf(processingSteps, "priority").active
            /\ ~stepOf(processingSteps, "priority").completed

\* schema success was applied in a state where priority had been completed:
\* schema is completed and priority is active again
ConcurrentStepRuleWitness ==
  /\ last = Op("status", 0, 7)
  /\ stepOf(prevSteps, "priority").completed
  /\ stepOf(processingSteps, "schema").completed
  /\ stepOf(processingSteps, "priority").active

\* C7: right after every dispatched endpoints frame that carries an array,
\* the endpoint list is the list of the formatted records of that array,
\* whatever the list held before; in particular the second of two
\* consecutive endpoints events replaces the list of the first
EndpointReplacement ==
  [][last'.op = "deliver" =>
       \A frames \in {framesOfStep(last'.sid, last'.arg)} :
         \A i \in 1..Len(frames) :
           \A p \in {JSONparse(frames[i].eventContent)} :
             (frames[i].eventType = T_ENDPOINTS /\ p.ok /\ p.data.endpoints.t = "array")
               => \A after \in {dispatchAll(cells, SubSeq(frames, 1, i))} :
                    /\ after.endpoints = formattedEndpoints(p.data.endpoints.a)
                    /\ (i = Len(frames) => endpoints' = after.endpoints)]_vars

\* the only events of the one session were 'cloned' plus endpoints
\* [GET /api/users] and then endpoints with the second array: the list is
\* the two formatted records of the second array
EndpointReplacementWitness ==
  /\ last = Op("deliver", 1, 4)
  /\ Len(streams) = 1
  /\ transported = 3
  /\ stepOf(processingSteps, "clone").completed
  /\ endpoints =
       << [method |-> Str(GET), path |-> Str(S_ITEMS), description |-> Str(S_LIST)],
          [method |-> Str(S_POST), path |-> Str(S_API_USERS), description |-> Str(S_CREATE)] >>

\* C8: after a chunk whose last frame is a completed event that carries a
\* result, the result is that object, loading is false and no step is active
CompletedLeavesNoActiveStep ==
  [][last'.op = "deliver" =>
       \A frames \in {framesOfStep(last'.sid, last'.arg)} :
         frames # <<>> =>
           \A p \in {JSONparse(frames[Len(frames)].eventContent)} :
             (frames[Len(frames)].eventType = T_COMPLETED /\ p.ok /\ Truthy(p.data.result))
               => /\ projectData' = p.data.result
                  /\ ~loading'
                  /\ \A i \in 1..Len(processingSteps') : ~processingSteps'[i].active]_vars

\* C9: the cleanup run a second time, or after every stream has ended, or
\* with no session ever started, changes nothing: the state cells, the ref,
\* the URL and the streams keep their values and no error is raised
IdempotentTermination ==
  [][(last'.op = "cleanup"
      /\ (~mounted \/ \A sid \in 1..Len(streams) : streams[sid].phase \in {"done", "failed"}))
       => /\ cells' = cells
          /\ eventSourceRef' = eventSourceRef
          /\ repoUrl' = repoUrl
          /\ streams' = streams]_vars

\* the cleanup has run twice after the one session ended by end of stream
IdempotentTerminationWitness ==
  /\ last = Op("cleanup", 0, 2)
  /\ Len(streams) = 1
  /\ streams[1].phase = "done"
  /\ ~loading
  /\ eventSourceRef = Null

\* C10: a chunk leaves loading, the steps, the endpoints and the result as
\* they would be had its frames with a malformed payload not been there: a
\* decode failure changes none of them and the frames after it are
\* dispatched as usual
DecodeFailureNonFatal ==
  [][last'.op = "deliver" =>
       \A frames \in {framesOfStep(last'.sid, last'.arg)} :
         \A expected \in {dispatchAll(cells, SelectSeq(frames, wellFormed))} :
           /\ loading' = expected.loading
           /\ processingSteps' = expected.processingSteps
           /\ endpoints' = expected.endpoints
           /\ projectData' = expected.projectData]_vars

\* the first chunk of a session held a malformed status frame and then
\* 'Extracting API endpoints': the session is active, the failure was
\* reported and the later frame has set extract active
DecodeFailureNonFatalWitness ==
  /\ last = Op("deliver", 1, 7)
  /\ transported = 2
  /\ loading
  /\ error = Str(MSG_PARSE_PREFIX \o MSG_SYNTAX)
  /\ stepOf(processingSteps, "extract").active
  /\ endpoints = <<>>
  /\ projectData = NullResult

\* the frame is an error event whose payload parses to a value the case can
\* read
isErrorFrame(f) ==
  /\ f.eventType = T_ERROR
  /\ \E p \in {JSONparse(f.eventContent)} : p.ok /\ p.data.t # "null"

\* C11: a chunk that carries no error event leaves the error as it was, so
\* that only an error event or a failure of the transport writes it
ErrorOnlyFromErrorEventOrTransport ==
  [][last'.op = "deliver" =>
       \A frames \in {framesOfStep(last'.sid, last'.arg)} :
         (\A i \in 1..Len(frames) : ~isErrorFrame(frames[i])) => error' = error]_vars

\* C12: the result and the error are never both set, and the error is never
\* set while loading is true
ResultAndErrorExclusive ==
  /\ ~(Truthy(projectData) /\ Truthy(error))
  /\ ~(loading /\ Truthy(error))

\* C13: once a stream is terminal (a completed, error or message_stop frame
\* was dispatched on it, the transport failed or the stream ended), no
\* further chunk is read from it
TerminalReleasesTransport ==
  [][last'.op = "deliver" => ~streams[last'.sid].terminal]_vars

\* C14: right after an accepted handleClone the endpoint list is empty, the
\* result and the error are unset, each of the seven steps is pending and
\* loading is true; the stream of the new session has not been read yet
StartResetsState ==
  last.op = "handleClone" =>
    /\ endpoints = <<>>
    /\ ~Truthy(projectData)
    /\ ~Truthy(error)
    /\ Len(processingSteps) = 7
    /\ \A i \in 1..Len(processingSteps) :
         ~processingSteps[i].active /\ ~processingSteps[i].completed
    /\ loading
    /\ streams[last.sid].phase = "fetch"
    /\ streams[last.sid].buffer = <<>>

\* a second session was accepted after a chunk of the first with a terminal
\* event had been dispatched; the stream of the first is still open
StartResetsStateWitness ==
  /\ last = Op("handleClone", 2, 0)
  /\ transported = 2
  /\ streams[1].phase = "reading"
  /\ streams[1].terminal
  /\ loading

\* C15: a rejected start sets the error and ends loading on a stream no
\* chunk was read from; a read that throws sets the error and ends loading;
\* neither issues a new request, and a failed stream is never read again
TransportFailureIsTerminal ==
  [][/\ last'.op = "fetchFails" =>
          /\ startsWith(error'.s, MSG_START_PREFIX)
          /\ Truthy(error')
          /\ ~loading'
          /\ streams[last'.sid].phase = "fetch"
          /\ streams'[last'.sid].buffer = <<>>
          /\ Len(streams') = Len(streams)
     /\ last'.op = "readFails" =>
          /\ startsWith(error'.s, MSG_STREAM_PREFIX)
          /\ Truthy(error')
          /\ ~loading'
          /\ Len(streams') = Len(streams)
     /\ \A sid \in 1..Len(streams) :
          streams[sid].phase = "failed" => streams'[sid] = streams[sid]]_vars

\* a read threw after a chunk that ends inside a frame had been consumed:
\* the error is that of the stream, loading is false, the stream has failed
\* with the partial frame still in its buffer
TransportFailureIsTerminalWitness ==
  /\ last = Op("readFails", 1, 0)
  /\ transported = 3
  /\ error = Str(MSG_STREAM_PREFIX \o MSG_READ)
  /\ ~loading
  /\ streams[1].phase = "failed"
  /\ streams[1].buffer # <<>>

\* C16: every dispatched error event whose payload is an object sets the
\* error to the payload's message, or to the generic message when the
\* payload has no message or an empty one, sets loading to false and leaves
\* the steps, the endpoints and the result as they were before the event
ErrorEventEffect ==
  [][last'.op = "deliver" =>
       \A frames \in {framesOfStep(last'.sid, last'.arg)} :
         \A i \in 1..Len(frames) :
           isErrorFrame(frames[i]) =>
             \A before \in {dispatchAll(cells, SubSeq(frames, 1, i - 1))} :
               \A after \in {dispatchAll(cells, SubSeq(frames, 1, i))} :
                 \A message \in {JSONparse(frames[i].eventContent).data.error} :
                   /\ after.error =
                        IF message.t = "string" /\ message.s # <<>>
                          THEN message ELSE Str(MSG_UNKNOWN_ERROR)
                   /\ ~after.loading
                   /\ after.processingSteps = before.processingSteps
                   /\ after.endpoints = before.endpoints
                   /\ after.projectData = before.projectData
                   /\ (i = Len(frames) => cells' = after)]_vars

\* the error event 'boom' came after 'Repo cloned successfully' and an
\* endpoints event: the error is 'boom', loading is false, and the step
\* states and the endpoint of the earlier chunk are still there
ErrorEventEffectWitness ==
  /\ last = Op("deliver", 1, 5)
  /\ transported = 3
  /\ error = Str(S_BOOM)
  /\ ~loading
  /\ stepOf(processingSteps, "clone").completed
  /\ stepOf(processingSteps, "extract").active
  /\ Len(endpoints) = 1
  /\ ~Truthy(projectData)

\* C17: every dispatched message_stop event sets loading to false and
\* leaves the error, the result, the endpoints and the steps as they were
\* before the event
MessageStopEffect ==
  [][last'.op = "deliver" =>
       \A frames \in {framesOfStep(last'.sid, last'.arg)} :
         \A i \in 1..Len(frames) :
           (frames[i].eventType = T_MESSAGE_STOP /\ wellFormed(frames[i])) =>
             \A before \in {dispatchAll(cells, SubSeq(frames, 1, i - 1))} :
               \A after \in {dispatchAll(cells, SubSeq(frames, 1, i))} :
                 /\ after = [before EXCEPT !.loading = FALSE]
                 /\ (i = Len(frames) => cells' = after)]_vars

\* message_stop came after 'Repo cloned successfully' and an endpoints
\* event: loading is false, no error is set, and the step states and the
\* endpoint of the earlier chunk are still there
MessageStopEffectWitness ==
  /\ last = Op("deliver", 1, 6)
  /\ transported = 3
  /\ ~loading
  /\ error = Null
  /\ stepOf(processingSteps, "clone").completed
  /\ stepOf(processingSteps, "extract").active
  /\ Len(endpoints) = 1
  /\ ~Truthy(projectData)

\* the segment has a line made of the marker followed by the given text
hasLine(eventData, mark, rest) ==
  \E lines \in {split(eventData, LINE_SEP)} :
    \E k \in 1..Len(lines) : lines[k] = mark \o rest

\* C18: at every point of the feeding, each dispatched frame comes from a
\* segment of the text fed so far that was followed by the blank-line
\* terminator and has an 'event: ' line and a 'data: ' line; the text after
\* the last terminator is in the buffer, unmodified, and was not dispatched
OnlyTerminatedFramesDispatched ==
  \A segs \in {split(SubSeq(text, 1, fed), FRAME_SEP)} :
    /\ cbuffer = segs[Len(segs)]
    /\ Len(dispatched) <= Len(segs) - 1
    /\ \A i \in 1..Len(dispatched) :
         /\ dispatched[i].eventType # <<>>
         /\ dispatched[i].eventContent # <<>>
         /\ \E j \in i..(Len(segs) - 1) :
              /\ hasLine(segs[j], EVENT_MARK, dispatched[i].eventType)
              /\ hasLine(segs[j], DATA_MARK, dispatched[i].eventContent)

\* one frame was dispatched and the text after it, which has both lines
\* but no terminator yet, is in the buffer
OnlyTerminatedFramesDispatchedWitness ==
  /\ text = FrameA \o PieceEvent \o PieceData
  /\ fed = Len(text)
  /\ Len(dispatched) = 1
  /\ cbuffer = PieceEvent \o PieceData

\* C19: after a status text is applied, the steps are those before it with
\* the calls of one rule applied, the first rule in the order of the chain
\* whose phrase the text contains, whatever later phrases it also contains
FirstMatchWins ==
  (last.op = "status" /\ last.arg # 0) =>
    \A k \in 1..Len(Rules) :
      firstMatchIs(StatusTexts[last.arg], k) =>
        processingSteps = applyCalls(prevSteps, Rules[k].calls)

\* a text that contains 'Generating backend code' and also the later
\* phrase 'Backend code generated successfully' was applied: generate is
\* active, not completed, and postman was not set active
FirstMatchWinsWitness ==
  /\ last = Op("status", 0, 17)
  /\ includes(StatusTexts[17], P_BACKEND_GEN)
  /\ includes(StatusTexts[17], P_BACKEND_DONE)
  /\ stepOf(processingSteps, "generate").active
  /\ ~stepOf(processingSteps, "generate").completed
  /\ ~stepOf(prevSteps, "postman").active
  /\ ~stepOf(processingSteps, "postman").active

\* the frame is a status event whose payload is an object and whose status
\* is missing, empty, or a text that contains none of the phrases
isUnmatchedStatusFrame(f) ==
  /\ f.eventType = T_STATUS
  /\ \E p \in {JSONparse(f.eventContent)} :
       /\ p.ok
       /\ p.data.t # "null"
       /\ \/ ~Truthy(p.data.status)
          \/ \A k \in 1..Len(Rules) : ~includes(p.data.status.s, Rules[k].phrase)

\* C20: a dispatched status event whose status is missing, empty or
\* contains no known phrase changes nothing: the steps, the endpoints, the
\* result, the error and loading are those before the event
UnmatchedStatusIsNoOp ==
  [][last'.op = "deliver" =>
       \A frames \in {framesOfStep(last'.sid, last'.arg)} :
         /\ \A i \in 1..Len(frames) :
              isUnmatchedStatusFrame(frames[i]) =>
                dispatchAll(cells, SubSeq(frames, 1, i))
                  = dispatchAll(cells, SubSeq(frames, 1, i - 1))
         /\ (\A i \in 1..Len(frames) : isUnmatchedStatusFrame(frames[i]))
              => cells' = cells]_vars

\* the chunk with the status events 'Working...', {} and '' came after
\* 'Repo cloned successfully' and an endpoints event: the session is
\* active, no error is set and the earlier step states and endpoint remain
UnmatchedStatusIsNoOpWitness ==
  /\ last = Op("deliver", 1, 13)
  /\ transported = 3
  /\ loading
  /\ error = Null
  /\ stepOf(processingSteps, "clone").completed
  /\ stepOf(processingSteps, "extract").active
  /\ Len(endpoints) = 1
  /\ ~Truthy(projectData)

\* C21: no step is both active and completed
NoStepActiveAndCompleted ==
  \A i \in 1..Len(processingSteps) :
    ~(processingSteps[i].active /\ processingSteps[i].completed)

\* 'Cloning repository' arrived after 'Repo cloned successfully' had
\* completed clone: clone is active and no longer completed
NoStepActiveAndCompletedWitness ==
  /\ last = Op("deliver", 1, 1)
  /\ transported = 3
  /\ stepOf(processingSteps, "clone").active
  /\ ~stepOf(processingSteps, "clone").completed
  /\ stepOf(processingSteps, "extract").active
  /\ Len(endpoints) = 1

\* the ids of the steps a dispatched frame may change: those named by the
\* calls of the first rule its status text matches, none for any other frame
namedSteps(f) ==
  IF f.eventType # T_STATUS THEN {}
  ELSE LET p == JSONparse(f.eventContent)
       IN IF ~(p.ok /\ p.data.t # "null" /\ Truthy(p.data.status)) THEN {}
          ELSE UNION { {Rules[r].calls[c][1] : c \in 1..Len(Rules[r].calls)} :
                       r \in {k \in 1..Len(Rules) : firstMatchIs(p.data.status.s, k)} }

\* C22: the list always holds the seven steps in their order with their
\* labels; a chunk changes the state of no step other than those named by
\* the rules its status events match, and no operation other than a chunk
\* or an accepted start changes a step
StepListFixed ==
  [][/\ [i \in 1..Len(processingSteps') |-> processingSteps'[i].id] = StepIds
     /\ [i \in 1..Len(processingSteps') |-> processingSteps'[i].label] = StepLabels
     /\ last'.op = "deliver" =>
          \A frames \in {framesOfStep(last'.sid, last'.arg)} :
            \A i \in 1..Len(StepIds) :
              processingSteps'[i] # processingSteps[i] =>
                \E k \in 1..Len(frames) : StepIds[i] \in namedSteps(frames[k])
     /\ last'.op \notin {"deliver", "handleClone"} =>
          processingSteps' = processingSteps]_vars

\* the final status and completed came after 'Repo cloned successfully':
\* construct is completed, clone and extract are as the earlier chunk left
\* them and the four steps in between are pending
StepListFixedWitness ==
  /\ last = Op("deliver", 1, 11)
  /\ transported = 3
  /\ stepOf(processingSteps, "construct").completed
  /\ stepOf(processingSteps, "clone").completed
  /\ stepOf(processingSteps, "extract").active
  /\ \A id \in {"schema", "priority", "generate", "postman"} :
       ~stepOf(processingSteps, id).active /\ ~stepOf(processingSteps, id).completed
  /\ ~loading

\* C23: a handleClone that finds loading true or the URL empty changes
\* nothing: the state cells, the URL, the ref and every stream with its
\* buffer keep their values and no stream is added; an accepted start
\* happens only with loading false and a URL
StartIgnoredWhileActive ==
  [][/\ last'.op = "handleClone:return" =>
          /\ (loading \/ repoUrl = "")
          /\ cells' = cells
          /\ repoUrl' = repoUrl
          /\ eventSourceRef' = eventSourceRef
          /\ streams' = streams
          /\ transported' = transported
     /\ last'.op = "handleClone" =>
          /\ ~loading
          /\ repoUrl # ""
          /\ Len(streams') = Len(streams) + 1]_vars

\* handleClone was invoked while the one stream was being read and held
\* the head of a frame in its buffer: loading is still true, the stream
\* and its buffer are as they were and there is no second stream
StartIgnoredWhileActiveWitness ==
  /\ last.op = "handleClone:return"
  /\ loading
  /\ repoUrl # ""
  /\ Len(streams) = 1
  /\ streams[1].phase = "reading"
  /\ streams[1].buffer # <<>>
  /\ transported = 2

\* processingSteps.filter(step => step.completed).length
completedCount(steps) == Cardinality({i \in 1..Len(steps) : steps[i].completed})

\* the completed steps that the rule matched by the last status text sets
\* active again
reactivated ==
  IF last.op # "status" \/ last.arg = 0 THEN {}
  ELSE { i \in 1..Len(prevSteps) :
           /\ prevSteps[i].completed
           /\ \E r \in 1..Len(Rules) :
                /\ firstMatchIs(StatusTexts[last.arg], r)
                /\ \E c \in 1..Len(Rules[r].calls) :
                     Rules[r].calls[c] = <<prevSteps[i].id, "active">> }

\* C24 as stated: applying a status text never lowers the number of
\* completed steps
CompletedCountNeverDecreases ==
  completedCount(processingSteps) >= completedCount(prevSteps)

\* C24 amended: applying a status text lowers the number of completed steps
\* by no more than the number of completed steps its rule sets active
\* again, so the number does not decrease when the rule names no completed
\* step as active
CompletedCountDecreasesOnlyByReactivation ==
  /\ completedCount(processingSteps) >= completedCount(prevSteps) - Cardinality(reactivated)
  /\ reactivated = {} => completedCount(processingSteps) >= completedCount(prevSteps)

\* 'Cloning repository' was applied again after clone and extract had been
\* completed: clone is active and the count went from two to one
CompletedCountDecreasesOnlyByReactivationWitness ==
  /\ last = Op("status", 0, 2)
  /\ completedCount(prevSteps) = 2
  /\ stepOf(prevSteps, "clone").completed
  /\ stepOf(prevSteps, "extract").completed
  /\ completedCount(processingSteps) = 1
  /\ stepOf(processingSteps, "clone").active

\* the event types the switch has a case for
KnownTypes == {T_STATUS, T_ENDPOINTS, T_COMPLETED, T_ERROR, T_MESSAGE_STOP}

\* C25: a dispatched frame whose type is none of the five known ones
\* changes none of the five state cells, whatever its payload
UnknownTypeIsNoOp ==
  [][last'.op = "deliver" =>
       \A frames \in {framesOfStep(last'.sid, last'.arg)} :
         \A i \in 1..Len(frames) :
           frames[i].eventType \notin KnownTypes =>
             dispatchAll(cells, SubSeq(frames, 1, i))
               = dispatchAll(cells, SubSeq(frames, 1, i - 1))]_vars

\* C26: the end of a stream sets loading to false and changes nothing
\* else, whatever text is in the buffer, and a stream that has ended is
\* never read again, so the text left in its buffer is never dispatched
EndOfStreamDiscardsBuffer ==
  [][/\ last'.op = "streamDone" => cells' = [cells EXCEPT !.loading = FALSE]
     /\ \A sid \in 1..Len(streams) :
          streams[sid].phase = "done" => streams'[sid] = streams[sid]
     /\ last'.op = "deliver" => streams[last'.sid].phase = "reading"]_vars

\* the stream ended after a chunk that stops inside the data line of a
\* status frame: loading is false, no step changed and no error was set
EndOfStreamDiscardsBufferWitness ==
  /\ last = Op("streamDone", 1, 0)
  /\ transported = 3
  /\ streams[1].phase = "done"
  /\ startsWith(streams[1].buffer, EVENT_MARK \o T_STATUS)
  /\ ~loading
  /\ error = Null
  /\ processingSteps = InitialSteps
  /\ endpoints = <<>>
  /\ ~Truthy(projectData)

\* C27: whenever loading is true it is false at some later point, provided
\* every fetch settles and every stream that is read ends or fails
EventuallyInactive == loading ~> ~loading

\* the stream ended after a frame of an unknown type with a malformed
\* payload had been dispatched: the failure was reported and loading is false
EventuallyInactiveWitness ==
  /\ last = Op("streamDone", 1, 0)
  /\ Len(streams) = 1
  /\ streams[1].phase = "done"
  /\ error = Str(MSG_PARSE_PREFIX \o MSG_SYNTAX)
  /\ processingSteps = InitialSteps
  /\ ~loading

====
